---------------------------- MODULE Spec2Model ----------------------------
(***************************************************************************)
(* Request-scoped structured logging for an HTTP server (package lg):      *)
(* the RequestLogger middleware, the per-request HTTPLoggerEntry, the      *)
(* context store (WithLoggerContext / WithLogEntry / Log) and the field    *)
(* mutation API (SetLogField ...), together with the example Counter       *)
(* middleware that runs below the request logger.                          *)
(*                                                                         *)
(* One goroutine per request; requests interleave at every step that       *)
(* touches shared state.  A log "line" is one call made on a logrus        *)
(* logger: its message, the level of the call and the fields of the        *)
(* logger the call is made on.                                             *)
(***************************************************************************)
EXTENDS Integers, Sequences, FiniteSets, TLC

(* ------------------------------ bounds --------------------------------- *)
\* requests served in one run, each by its own goroutine
MaxReqs == 2
\* calls a downstream handler makes before it returns or panics
MaxSteps == 1
\* instants of the wall clock that time.Now() can return: 0 .. MaxTicks
MaxTicks == 1
\* nanoseconds between two instants of the model's clock
NsPerTick == 1500000
\* values stored on a context handed to the package's functions
MaxCtxLen == 2
\* calls made on such a context
MaxCalls == 2

(* ------------------------- program constants --------------------------- *)
StatusInternalServerError == 500

Reqs == 1 .. MaxReqs

\* logrus levels; NilLevel is the nil *logrus.Level of a fresh entry
NilLevel == "nil"
PanicLevel == "panic"
FatalLevel == "fatal"
ErrorLevel == "error"
WarnLevel == "warn"
InfoLevel == "info"
DebugLevel == "debug"
Levels == {PanicLevel, FatalLevel, ErrorLevel, WarnLevel, InfoLevel, DebugLevel}

\* context keys.  LoggerCtxKey and LogEntryCtxKey are this package's own
\* *contextKey values; ChiLogEntryCtxKey is middleware.LogEntryCtxKey, a
\* variable of the chi middleware package, hence a different pointer of a
\* different type; RequestIDKey is the key chi's RequestID middleware uses.
LoggerCtxKey == "lg.Logger"
LogEntryCtxKey == "lg.LogEntry"
ChiLogEntryCtxKey == "chi/middleware.LogEntry"
RequestIDKey == "chi/middleware.RequestID"

VARIABLES
    config,    \* RequestLoggerConfig.WriteRequestStartedLine, and how the server is set up
    pc,        \* pc[r]: where request r's goroutine is
    ctx,       \* ctx[r]: the context chain of request r (innermost value last)
    entry,     \* entry[r]: the HTTPLoggerEntry allocated for request r
    ww,        \* ww[r]: the response wrapper (status, bytes written)
    sink,      \* sink[r]: what the client of request r has received
    lines,     \* lines[r]: the log calls made while serving r, in order
    rec,       \* rec[r]: the value recover() yields in r's deferred function
    t1,        \* t1[r]: start instant of request r
    steps,     \* steps[r]: calls made so far by r's downstream handler
    counter,   \* the process-wide request counter of the Counter middleware
    now,       \* the wall clock
    alive,     \* FALSE once the process has exited
    outcome,   \* outcome[r]: how the middleware's handler function ended
    hist       \* hist[r]: history of r (arguments passed, values returned)

vars == <<config, pc, ctx, entry, ww, sink, lines, rec, t1, steps, counter,
          now, alive, outcome, hist>>

(* ------------------------------ fields --------------------------------- *)
\* logrus.Fields{}
NoFields == [k \in {} |-> 0]

\* (*logrus.Entry).WithFields: a new field set, the given fields winning
WithFields(data, fields) ==
    [k \in DOMAIN data \cup DOMAIN fields |->
        IF k \in DOMAIN fields THEN fields[k] ELSE data[k]]

\* (*logrus.Entry).WithField
WithField(data, key, value) == WithFields(data, key :> value)

\* a logrus.FieldLogger: the backend *logrus.Logger itself (no fields), or a
\* *logrus.Entry built from it carrying Data
BackendLogger == [kind |-> "logger", Data |-> NoFields]
NewEntry(data) == [kind |-> "entry", Data |-> data]

\* one call on a FieldLogger: Infoln, Errorln, ...
Line(logger, level, msg) == [msg |-> msg, level |-> level, fields |-> logger.Data]

(* ------------------------------ context -------------------------------- *)
NilValue == [key |-> "", kind |-> "nil", id |-> 0]

\* context.Background()
Background == << >>

\* context.WithValue(parent, key, val)
WithValue(parent, key, kind, id) ==
    Append(parent, [key |-> key, kind |-> kind, id |-> id])

\* ctx.Value(key): the innermost value stored under key, nil when none
Value(c, key) ==
    LET at == {i \in 1 .. Len(c) : c[i].key = key}
    IN  IF at = {} THEN NilValue
        ELSE c[CHOOSE i \in at : \A j \in at : j <= i]

WithLoggerContext(parent) == WithValue(parent, LoggerCtxKey, "logger", 0)

\* a WithLogEntry that installs one entry, the first allocated, on every context
WithLogEntryShared(parent, e) == WithValue(parent, LogEntryCtxKey, "entry", 1)

WithLogEntry(parent, e) == WithValue(parent, LogEntryCtxKey, "entry", e)

\* chi's RequestID middleware: a request id "<prefix>-<n>" on the context
ReqIDString(n) == "host/pfx-00000" \o ToString(n)
WithRequestID(parent, n) == WithValue(parent, RequestIDKey, "string", n)

\* middleware.GetReqID
GetReqID(c) ==
    LET v == Value(c, RequestIDKey)
    IN  IF v.kind = "string" THEN ReqIDString(v.id) ELSE ""

(* ---------------------------- panic values ----------------------------- *)
\* what recover() yields: nil when the goroutine is not panicking
NoPanic == [kind |-> "nil", s |-> "", n |-> 0]
StringValue(s) == [kind |-> "string", s |-> s, n |-> 0]
IntValue(n) == [kind |-> "int", s |-> "", n |-> n]

\* values a downstream handler panics with
PanicValues == {StringValue("boom"), IntValue(42)}

\* fmt.Sprintf("%+v", rec)
Sprintf(v) == IF v.kind = "string" THEN v.s ELSE ToString(v.n)

\* string(debug.Stack()): the goroutine's stack trace, never empty
Stack(r) == "goroutine " \o ToString(r) \o " [running]:"

(* --------------------------- lg context API ---------------------------- *)
NoBackendMsg == "lg: logger backend has not been set on the context."

\* Log(ctx): the logger of the entry found on the context, else the logger
\* stored by WithLoggerContext, else panic.  ok = FALSE stands for the panic.
Log(c, ents) ==
    LET e == Value(c, ChiLogEntryCtxKey)
        l == Value(c, LoggerCtxKey)
    IN  IF e.kind = "entry" THEN [ok |-> TRUE, logger |-> ents[e.id].Logger]
        ELSE IF l.kind = "logger" THEN [ok |-> TRUE, logger |-> BackendLogger]
        ELSE [ok |-> FALSE, logger |-> BackendLogger]

\* RequestLog(r) = Log(r.Context())
RequestLog(c, ents) == Log(c, ents)

\* SetLogFields(ctx, fields): the entries after the call
SetLogFields(c, fields, ents) ==
    LET e == Value(c, ChiLogEntryCtxKey)
    IN  IF e.kind = "entry"
        THEN [ents EXCEPT ![e.id].Logger = NewEntry(WithFields(@.Data, fields))]
        ELSE ents

\* a SetLogField that, finding no entry on the context, sets the field on
\* the first entry allocated
SetLogFieldFallback(c, key, value, ents) ==
    LET e == Value(c, ChiLogEntryCtxKey)
        id == IF e.kind = "entry" THEN e.id ELSE 1
    IN  [ents EXCEPT ![id].Logger = NewEntry(WithField(@.Data, key, value))]

\* SetLogField(ctx, key, value)
SetLogField(c, key, value, ents) ==
    LET e == Value(c, ChiLogEntryCtxKey)
    IN  IF e.kind = "entry"
        THEN [ents EXCEPT ![e.id].Logger = NewEntry(WithField(@.Data, key, value))]
        ELSE ents

\* SetRequestLogField(r, key, value) and SetRequestLogFields(r, fields)
SetRequestLogField(c, key, value, ents) == SetLogField(c, key, value, ents)
SetRequestLogFields(c, fields, ents) == SetLogFields(c, fields, ents)

(* --------------------------- HTTPLoggerEntry --------------------------- *)
\* the request as NewLogEntry reads it
Request(r) ==
    [Method |-> "GET", RemoteAddr |-> "10.0.0." \o ToString(r),
     UserAgent |-> "curl", Path |-> "/articles/" \o ToString(r)]

\* HTTPLogger.NewLogEntry(r): the entry, and the lines it writes
\* a NewLogEntry that leaves the "request started" line to be written later
NewLogEntryNoStartedLine(writeStarted, c, req) ==
    LET reqID == GetReqID(c)
        f0 == IF reqID # "" THEN "req_id" :> reqID ELSE NoFields
        logFields == WithFields(f0, [method |-> req.Method, ip |-> req.RemoteAddr,
                                     ua |-> req.UserAgent, uri |-> req.Path])
        logger == NewEntry(WithFields(NoFields, logFields))
    IN  [entry |-> [Logger |-> logger, Level |-> NilLevel],
         lines |-> << >>]

\* a NewLogEntry that sets req_id whatever GetReqID returns
NewLogEntryAlwaysReqID(writeStarted, c, req) ==
    LET reqID == GetReqID(c)
        f0 == "req_id" :> reqID
        logFields == WithFields(f0, [method |-> req.Method, ip |-> req.RemoteAddr,
                                     ua |-> req.UserAgent, uri |-> req.Path])
        logger == NewEntry(WithFields(NoFields, logFields))
    IN  [entry |-> [Logger |-> logger, Level |-> NilLevel],
         lines |-> IF writeStarted
                   THEN << Line(logger, InfoLevel, "request started") >>
                   ELSE << >>]

NewLogEntry(writeStarted, c, req) ==
    LET reqID == GetReqID(c)
        f0 == IF reqID # "" THEN "req_id" :> reqID ELSE NoFields
        logFields == WithFields(f0, [method |-> req.Method, ip |-> req.RemoteAddr,
                                     ua |-> req.UserAgent, uri |-> req.Path])
        logger == NewEntry(WithFields(NoFields, logFields))
    IN  [entry |-> [Logger |-> logger, Level |-> NilLevel],
         lines |-> IF writeStarted
                   THEN << Line(logger, InfoLevel, "request started") >>
                   ELSE << >>]

\* float64(elapsed.Nanoseconds()) / 1000000.0: whole milliseconds and the
\* remaining nanoseconds
\* an elapsed time in whole milliseconds
MillisTruncated(ns) == [ms |-> ns \div 1000000, frac |-> 0]

Millis(ns) == [ms |-> ns \div 1000000, frac |-> ns % 1000000]

\* one call <Level>ln(msg) on a logger.  Fatalln writes the line and then
\* exits the process; Panicln writes it and then panics.
Logln(logger, level, msg) ==
    [lines |-> << Line(logger, level, msg) >>,
     exit |-> level = FatalLevel,
     panics |-> level = PanicLevel]

NoLine == [lines |-> << >>, exit |-> FALSE, panics |-> FALSE]

\* a Write whose switch has no case for the panic level
WriteCompletedNoPanicCase(level, logger) ==
    IF level = NilLevel THEN Logln(logger, InfoLevel, "completed")
    ELSE IF level \in Levels \ {PanicLevel} THEN Logln(logger, level, "completed")
    ELSE NoLine

\* a Write that logs the panic level with Panicln
WriteCompletedPanicln(level, logger) ==
    IF level = NilLevel THEN Logln(logger, InfoLevel, "completed")
    ELSE IF level \in Levels THEN Logln(logger, level, "completed")
    ELSE NoLine

\* HTTPLoggerEntry.Write: the call that writes "completed", by the entry's Level
WriteCompleted(level, logger) ==
    IF level = NilLevel THEN Logln(logger, InfoLevel, "completed")
    ELSE CASE level = DebugLevel -> Logln(logger, DebugLevel, "completed")
           [] level = InfoLevel  -> Logln(logger, InfoLevel, "completed")
           [] level = WarnLevel  -> Logln(logger, WarnLevel, "completed")
           [] level = ErrorLevel -> Logln(logger, ErrorLevel, "completed")
           [] level = FatalLevel -> Logln(logger, FatalLevel, "completed")
           [] level = PanicLevel -> Logln(logger, ErrorLevel, "completed")
           [] OTHER -> NoLine

\* HTTPLoggerEntry.Write(status, bytes, elapsed)
Write(e, status, bytes, elapsed) ==
    LET logger == NewEntry(WithFields(e.Logger.Data,
                     [res_code |-> status, res_bytes |-> bytes,
                      res_ms |-> Millis(elapsed)]))
        call == WriteCompleted(e.Level, logger)
    IN  [entry |-> [e EXCEPT !.Logger = logger],
         lines |-> call.lines, exit |-> call.exit, panics |-> call.panics]

\* HTTPLoggerEntry.Panic(rec, stack)
Panic(e, v, stack) ==
    [Logger |-> NewEntry(WithFields(e.Logger.Data,
                    [stack |-> stack, panic |-> Sprintf(v)])),
     Level |-> PanicLevel]

(* ------------------------- response wrapper ---------------------------- *)
\* the wrapper made by middleware.NewWrapResponseWriter around the client's
\* sink: rw.ww is what the wrapper has observed, rw.sink what the client got
NewWrapResponseWriter == [code |-> 0, bytes |-> 0, wroteHeader |-> FALSE]
NewSink == [status |-> 0, body |-> 0]

\* WriteHeader on the wrapper: the first status is recorded and passed on,
\* a later one is dropped
WriteHeader(rw, code) ==
    IF rw.ww.wroteHeader THEN rw
    ELSE [ww |-> [rw.ww EXCEPT !.code = code, !.wroteHeader = TRUE],
          sink |-> [rw.sink EXCEPT !.status = code]]

\* Write of n bytes on the wrapper: an implicit 200 when no status was written
WriteBody(rw, n) ==
    LET h == WriteHeader(rw, 200)
    IN  [ww |-> [h.ww EXCEPT !.bytes = @ + n],
         sink |-> [h.sink EXCEPT !.body = @ + n]]

\* http.StatusText(http.StatusInternalServerError)
StatusText500 == "Internal Server Error"

\* http.Error(w, error, code): WriteHeader(code), then the text and a newline
HTTPError(rw, error, code) == WriteBody(WriteHeader(rw, code), Len(error) + 1)

(* -------------------- RequestLogger's deferred function ----------------- *)
\* a deferred function that writes the completion line before it recovers
DeferredWriteFirst(e, rw, v, stack, elapsed) ==
    LET panicking == v # NoPanic
        w == Write(e, rw.ww.code, rw.ww.bytes, elapsed)
        e1 == IF panicking THEN Panic(w.entry, v, stack) ELSE w.entry
        rw1 == IF panicking
               THEN HTTPError(rw, StatusText500, StatusInternalServerError)
               ELSE rw
    IN  [entry |-> e1, rw |-> rw1, lines |-> w.lines,
         outcome |-> IF w.exit THEN "exit"
                     ELSE IF w.panics THEN "panicked" ELSE "returned"]

\* the deferred function of the middleware's handler, run when the downstream
\* handler has returned (v = NoPanic) or panicked with v: recover, record the
\* panic and answer 500, then write the completion line
\* a deferred function whose call of Panic writes a line of its own
DeferredPanicLogs(e, rw, v, stack, elapsed) ==
    LET panicking == v # NoPanic
        e1 == IF panicking THEN Panic(e, v, stack) ELSE e
        rw1 == IF panicking
               THEN HTTPError(rw, StatusText500, StatusInternalServerError)
               ELSE rw
        w == Write(e1, rw1.ww.code, rw1.ww.bytes, elapsed)
    IN  [entry |-> w.entry, rw |-> rw1,
         lines |-> IF panicking
                   THEN << Line(e1.Logger, PanicLevel, Sprintf(v)) >> \o w.lines
                   ELSE w.lines,
         outcome |-> IF w.exit THEN "exit"
                     ELSE IF w.panics THEN "panicked" ELSE "returned"]

\* a deferred function that reads the wrapper's status and byte count before
\* it writes the error response
DeferredStatusBeforeError(e, rw, v, stack, elapsed) ==
    LET panicking == v # NoPanic
        e1 == IF panicking THEN Panic(e, v, stack) ELSE e
        rw1 == IF panicking
               THEN HTTPError(rw, StatusText500, StatusInternalServerError)
               ELSE rw
        w == Write(e1, rw.ww.code, rw.ww.bytes, elapsed)
    IN  [entry |-> w.entry, rw |-> rw1, lines |-> w.lines,
         outcome |-> IF w.exit THEN "exit"
                     ELSE IF w.panics THEN "panicked" ELSE "returned"]

\* a deferred function that sets the pending Level whether or not a panic
\* was recovered
DeferredAlwaysEscalates(e, rw, v, stack, elapsed) ==
    LET panicking == v # NoPanic
        e1 == IF panicking THEN Panic(e, v, stack) ELSE [e EXCEPT !.Level = PanicLevel]
        rw1 == IF panicking
               THEN HTTPError(rw, StatusText500, StatusInternalServerError)
               ELSE rw
        w == Write(e1, rw1.ww.code, rw1.ww.bytes, elapsed)
    IN  [entry |-> w.entry, rw |-> rw1, lines |-> w.lines,
         outcome |-> IF w.exit THEN "exit"
                     ELSE IF w.panics THEN "panicked" ELSE "returned"]

Deferred(e, rw, v, stack, elapsed) ==
    LET panicking == v # NoPanic
        e1 == IF panicking THEN Panic(e, v, stack) ELSE e
        rw1 == IF panicking
               THEN HTTPError(rw, StatusText500, StatusInternalServerError)
               ELSE rw
        w == Write(e1, rw1.ww.code, rw1.ww.bytes, elapsed)
    IN  [entry |-> w.entry, rw |-> rw1, lines |-> w.lines,
         outcome |-> IF w.exit THEN "exit"
                     ELSE IF w.panics THEN "panicked" ELSE "returned"]

(* ------------------------------- state --------------------------------- *)
\* the context a request arrives with: the server's base context, with the
\* backend logger when the server installed it (chi.ServerBaseContext), and
\* the request id when the RequestID middleware runs above the logger
IncomingContext(cfg, r) ==
    LET base == IF cfg.baseLogger THEN WithLoggerContext(Background) ELSE Background
    IN  IF cfg.requestID THEN WithRequestID(base, r) ELSE base

NoResult == [called |-> FALSE, ok |-> FALSE, logger |-> BackendLogger,
             entryLogger |-> BackendLogger]

NoHistory ==
    [added |-> NoFields,   \* fields passed to the Set... functions, last value per key
     own |-> 0,            \* value returned by this request's atomic.AddUint64
     cnt |-> 0,            \* value of counter passed to SetLogField by Counter
     got |-> NoResult,     \* result of the handler's last Log / RequestLog call
     exitSink |-> NewSink, \* what the client had received when the handler ended
     prior |-> 0,          \* requests that had panicked and completed before this one began
     raised |-> NoPanic,   \* value of a panic of the handler that PrintPanics met
     stdout |-> << >>]     \* what PrintPanics printed for this request

Configs ==
    [WriteRequestStartedLine : BOOLEAN, baseLogger : BOOLEAN, requestID : BOOLEAN]

Init ==
    /\ config \in Configs
    /\ pc = [r \in Reqs |-> "idle"]
    /\ ctx = [r \in Reqs |-> IncomingContext(config, r)]
    /\ entry = [r \in Reqs |-> [Logger |-> BackendLogger, Level |-> NilLevel]]
    /\ ww = [r \in Reqs |-> NewWrapResponseWriter]
    /\ sink = [r \in Reqs |-> NewSink]
    /\ lines = [r \in Reqs |-> << >>]
    /\ rec = [r \in Reqs |-> NoPanic]
    /\ t1 = [r \in Reqs |-> 0]
    /\ steps = [r \in Reqs |-> 0]
    /\ counter = 0
    /\ now = 0
    /\ alive = TRUE
    /\ outcome = [r \in Reqs |-> "running"]
    /\ hist = [r \in Reqs |-> NoHistory]

(* ------------------------------ actions -------------------------------- *)
\* RequestLoggerWithConfig's handler up to the call of next.ServeHTTP.
\* Requests are numbered in the order in which the server begins them.
RequestLoggerServe(r) ==
    /\ alive
    /\ pc[r] = "idle"
    /\ \A q \in Reqs : q < r => pc[q] # "idle"
    /\ \E t \in now .. MaxTicks :
        LET n == NewLogEntry(config.WriteRequestStartedLine, ctx[r], Request(r))
        IN  /\ entry' = [entry EXCEPT ![r] = n.entry]
            /\ lines' = [lines EXCEPT ![r] = @ \o n.lines]
            /\ ww' = [ww EXCEPT ![r] = NewWrapResponseWriter]
            /\ t1' = [t1 EXCEPT ![r] = t]
            /\ now' = t
            /\ ctx' = [ctx EXCEPT ![r] = WithLogEntry(@, r)]
    /\ hist' = [hist EXCEPT ![r].prior =
                 Cardinality({q \in Reqs : pc[q] = "done" /\ rec[q] # NoPanic})]
    /\ pc' = [pc EXCEPT ![r] = "counter"]
    /\ UNCHANGED <<config, sink, rec, steps, counter, alive, outcome>>

\* Counter: atomic.AddUint64(&counter, 1)
CounterAdd(r) ==
    /\ alive
    /\ pc[r] = "counter"
    /\ counter' = counter + 1
    /\ hist' = [hist EXCEPT ![r].own = counter + 1]
    /\ pc' = [pc EXCEPT ![r] = "attach"]
    /\ UNCHANGED <<config, ctx, entry, ww, sink, lines, rec, t1, steps, now,
                   alive, outcome>>

\* Counter: lg.SetLogField(r.Context(), "count", counter), then next.ServeHTTP.
\* counter is read without synchronisation: the read yields this request's
\* own increment or any later one
CounterSetLogField(r) ==
    /\ alive
    /\ pc[r] = "attach"
    /\ \E v \in hist[r].own .. counter :
        /\ entry' = SetLogField(ctx[r], "count", v, entry)
        /\ hist' = [hist EXCEPT ![r].cnt = v,
                                ![r].added = WithField(@, "count", v)]
    /\ pc' = [pc EXCEPT ![r] = "handler"]
    /\ UNCHANGED <<config, ctx, ww, sink, lines, rec, t1, steps, counter, now,
                   alive, outcome>>

\* what a downstream handler may still do
Running(r) == alive /\ pc[r] = "handler" /\ steps[r] < MaxSteps

\* downstream: lg.SetRequestLogField(r, "article", 123)
DownSetRequestLogField(r) ==
    /\ Running(r)
    /\ entry' = SetRequestLogField(ctx[r], "article", 123, entry)
    /\ hist' = [hist EXCEPT ![r].added = WithField(@, "article", 123)]
    /\ steps' = [steps EXCEPT ![r] = @ + 1]
    /\ UNCHANGED <<config, pc, ctx, ww, sink, lines, rec, t1, counter, now,
                   alive, outcome>>

\* downstream: lg.SetLogFields(r.Context(), {"article": 124, "paginate": true})
DownSetLogFields(r) ==
    /\ Running(r)
    /\ LET fields == [article |-> 124, paginate |-> TRUE]
       IN  /\ entry' = SetLogFields(ctx[r], fields, entry)
           /\ hist' = [hist EXCEPT ![r].added = WithFields(@, fields)]
    /\ steps' = [steps EXCEPT ![r] = @ + 1]
    /\ UNCHANGED <<config, pc, ctx, ww, sink, lines, rec, t1, counter, now,
                   alive, outcome>>

\* downstream: lg.RequestLog(r).Warnf(...); Log panics when it finds no logger
DownRequestLog(r) ==
    /\ Running(r)
    /\ LET res == RequestLog(ctx[r], entry)
       IN  /\ hist' = [hist EXCEPT
                 ![r].got = [called |-> TRUE, ok |-> res.ok, logger |-> res.logger,
                             entryLogger |-> entry[r].Logger],
                 ![r].exitSink = IF res.ok THEN @ ELSE sink[r]]
           /\ lines' = [lines EXCEPT ![r] =
                 IF res.ok THEN Append(@, Line(res.logger, WarnLevel, "inside handler"))
                 ELSE @]
           /\ rec' = [rec EXCEPT ![r] = IF res.ok THEN @ ELSE StringValue(NoBackendMsg)]
           /\ pc' = [pc EXCEPT ![r] = IF res.ok THEN @ ELSE "unwinding"]
    /\ steps' = [steps EXCEPT ![r] = @ + 1]
    /\ UNCHANGED <<config, ctx, entry, ww, sink, t1, counter, now, alive, outcome>>

\* downstream: w.WriteHeader(404)
DownWriteHeader(r) ==
    /\ Running(r)
    /\ LET rw == WriteHeader([ww |-> ww[r], sink |-> sink[r]], 404)
       IN  /\ ww' = [ww EXCEPT ![r] = rw.ww]
           /\ sink' = [sink EXCEPT ![r] = rw.sink]
    /\ steps' = [steps EXCEPT ![r] = @ + 1]
    /\ UNCHANGED <<config, pc, ctx, entry, lines, rec, t1, counter, now, alive,
                   outcome, hist>>

\* downstream: w.Write([]byte("index"))
DownWrite(r) ==
    /\ Running(r)
    /\ LET rw == WriteBody([ww |-> ww[r], sink |-> sink[r]], Len("index"))
       IN  /\ ww' = [ww EXCEPT ![r] = rw.ww]
           /\ sink' = [sink EXCEPT ![r] = rw.sink]
    /\ steps' = [steps EXCEPT ![r] = @ + 1]
    /\ UNCHANGED <<config, pc, ctx, entry, lines, rec, t1, counter, now, alive,
                   outcome, hist>>

\* downstream: panic(v)
DownPanic(r) ==
    /\ alive
    /\ pc[r] = "handler"
    /\ \E v \in PanicValues : rec' = [rec EXCEPT ![r] = v]
    /\ hist' = [hist EXCEPT ![r].exitSink = sink[r]]
    /\ pc' = [pc EXCEPT ![r] = "unwinding"]
    /\ UNCHANGED <<config, ctx, entry, ww, sink, lines, t1, steps, counter, now,
                   alive, outcome>>

\* downstream: the handler returns
DownReturn(r) ==
    /\ alive
    /\ pc[r] = "handler"
    /\ hist' = [hist EXCEPT ![r].exitSink = sink[r]]
    /\ pc' = [pc EXCEPT ![r] = "unwinding"]
    /\ UNCHANGED <<config, ctx, entry, ww, sink, lines, rec, t1, steps, counter,
                   now, alive, outcome>>

\* RequestLoggerWithConfig's deferred function, and the handler's end
RequestLoggerDeferred(r) ==
    /\ alive
    /\ pc[r] = "unwinding"
    /\ \E t2 \in now .. MaxTicks :
        LET d == Deferred(entry[r], [ww |-> ww[r], sink |-> sink[r]], rec[r],
                          Stack(r), (t2 - t1[r]) * NsPerTick)
        IN  /\ now' = t2
            /\ entry' = [entry EXCEPT ![r] = d.entry]
            /\ ww' = [ww EXCEPT ![r] = d.rw.ww]
            /\ sink' = [sink EXCEPT ![r] = d.rw.sink]
            /\ lines' = [lines EXCEPT ![r] = @ \o d.lines]
            /\ outcome' = [outcome EXCEPT ![r] = d.outcome]
            /\ alive' = (d.outcome # "exit")
    /\ pc' = [pc EXCEPT ![r] = "done"]
    /\ UNCHANGED <<config, ctx, rec, t1, steps, counter, hist>>

\* downstream code holding the entry (ctx.Value(LogEntryCtxKey)) assigns its
\* exported Level field
DownSetLevel(r) ==
    /\ Running(r)
    /\ \E lvl \in Levels :
        LET e == Value(ctx[r], LogEntryCtxKey)
        IN  /\ e.kind = "entry"
            /\ entry' = [entry EXCEPT ![e.id].Level = lvl]
    /\ steps' = [steps EXCEPT ![r] = @ + 1]
    /\ UNCHANGED <<config, pc, ctx, ww, sink, lines, rec, t1, counter, now,
                   alive, outcome, hist>>

Next ==
    \E r \in Reqs :
        \/ RequestLoggerServe(r)
        \/ CounterAdd(r)
        \/ CounterSetLogField(r)
        \/ DownSetRequestLogField(r)
        \/ DownSetLogFields(r)
        \/ DownRequestLog(r)
        \/ DownWriteHeader(r)
        \/ DownWrite(r)
        \/ DownPanic(r)
        \/ DownReturn(r)
        \/ RequestLoggerDeferred(r)

\* the middleware chain with handlers that use the package's functions only
Spec == Init /\ [][Next]_vars

\* the same, with handlers that also set the entry's Level field
InitLevel ==
    /\ Init
    /\ config = [WriteRequestStartedLine |-> TRUE, baseLogger |-> TRUE,
                 requestID |-> TRUE]

NextLevel == Next \/ \E r \in Reqs : DownSetLevel(r)

SpecLevel == InitLevel /\ [][NextLevel]_vars

\* a PrintPanics whose deferred function prints and lets the panic go on
PrintPanicsReraise(v, stack) ==
    [rec |-> v,
     out |-> IF v # NoPanic
             THEN << "\nPANIC: " \o Sprintf(v) \o "\n", stack \o "\n" >>
             ELSE << >>]

\* the deferred function of PrintPanics, run with the value v of the panic
\* that ended next.ServeHTTP (NoPanic after a return): recover() ends the
\* panic, and the value and the stack are printed on the standard output
PrintPanics(v, stack) ==
    [rec |-> NoPanic,
     out |-> IF v # NoPanic
             THEN << "\nPANIC: " \o Sprintf(v) \o "\n", stack \o "\n" >>
             ELSE << >>]

(* --------------- PrintPanics below the request logger ------------------ *)
\* the handler under PrintPanics panics: PrintPanics' deferred function runs next
PrintDownPanic(r) ==
    /\ alive
    /\ pc[r] = "handler"
    /\ \E v \in PanicValues :
          /\ rec' = [rec EXCEPT ![r] = v]
          /\ hist' = [hist EXCEPT ![r].exitSink = sink[r], ![r].raised = v]
    /\ pc' = [pc EXCEPT ![r] = "printing"]
    /\ UNCHANGED <<config, ctx, entry, ww, sink, lines, t1, steps, counter, now,
                   alive, outcome>>

\* the handler under PrintPanics returns
PrintDownReturn(r) ==
    /\ alive
    /\ pc[r] = "handler"
    /\ hist' = [hist EXCEPT ![r].exitSink = sink[r]]
    /\ pc' = [pc EXCEPT ![r] = "printing"]
    /\ UNCHANGED <<config, ctx, entry, ww, sink, lines, rec, t1, steps, counter,
                   now, alive, outcome>>

\* PrintPanics' deferred function; the request logger's runs after it
PrintPanicsDeferred(r) ==
    /\ alive
    /\ pc[r] = "printing"
    /\ LET p == PrintPanics(rec[r], Stack(r))
       IN  /\ rec' = [rec EXCEPT ![r] = p.rec]
           /\ hist' = [hist EXCEPT ![r].stdout = @ \o p.out]
    /\ pc' = [pc EXCEPT ![r] = "unwinding"]
    /\ UNCHANGED <<config, ctx, entry, ww, sink, lines, t1, steps, counter, now,
                   alive, outcome>>

InitPrint ==
    /\ Init
    /\ config.baseLogger
    /\ config.requestID

NextPrint ==
    \E r \in Reqs :
        \/ RequestLoggerServe(r)
        \/ CounterAdd(r)
        \/ CounterSetLogField(r)
        \/ DownSetRequestLogField(r)
        \/ DownSetLogFields(r)
        \/ DownWriteHeader(r)
        \/ DownWrite(r)
        \/ PrintDownPanic(r)
        \/ PrintDownReturn(r)
        \/ PrintPanicsDeferred(r)
        \/ RequestLoggerDeferred(r)

\* the chain RequestLogger, PrintPanics, Counter, handler
SpecPrint == InitPrint /\ [][NextPrint]_vars

(* ------------- the context functions on arbitrary contexts ------------- *)
\* chi's middleware.WithLogEntry: the entry stored under chi's own key
ChiWithLogEntry(parent, e) == WithValue(parent, ChiLogEntryCtxKey, "entry", e)

\* the contexts built from context.Background() by n installations
RECURSIVE ContextsOfLen(_)
ContextsOfLen(n) ==
    IF n = 0 THEN {Background}
    ELSE LET P == ContextsOfLen(n - 1)
         IN  {WithLoggerContext(c) : c \in P}
             \cup {WithLogEntry(c, e) : c \in P, e \in Reqs}
             \cup {ChiWithLogEntry(c, e) : c \in P, e \in Reqs}

Contexts == UNION {ContextsOfLen(n) : n \in 0 .. MaxCtxLen}

\* the goroutine that calls the package's functions on the context ctx[Caller]
Caller == 1

FixedConfig ==
    [WriteRequestStartedLine |-> TRUE, baseLogger |-> TRUE, requestID |-> TRUE]

\* entries exist, as NewLogEntry made them; the caller holds any context
InitCtx ==
    /\ config = FixedConfig
    /\ pc = [r \in Reqs |-> "idle"]
    /\ \E c \in Contexts : ctx = [r \in Reqs |-> IF r = Caller THEN c ELSE Background]
    /\ entry = [r \in Reqs |->
                  NewLogEntry(FALSE, IncomingContext(config, r), Request(r)).entry]
    /\ ww = [r \in Reqs |-> NewWrapResponseWriter]
    /\ sink = [r \in Reqs |-> NewSink]
    /\ lines = [r \in Reqs |-> << >>]
    /\ rec = [r \in Reqs |-> NoPanic]
    /\ t1 = [r \in Reqs |-> 0]
    /\ steps = [r \in Reqs |-> 0]
    /\ counter = 0
    /\ now = 0
    /\ alive = TRUE
    /\ outcome = [r \in Reqs |-> "running"]
    /\ hist = [r \in Reqs |-> NoHistory]

Calling == alive /\ outcome[Caller] = "running" /\ steps[Caller] < MaxCalls

CallFrame == UNCHANGED <<config, pc, ctx, ww, sink, t1, counter, now, alive>>

\* lg.SetLogField(ctx, "k1", 1)
CtxSetLogField ==
    /\ Calling
    /\ entry' = SetLogField(ctx[Caller], "k1", 1, entry)
    /\ hist' = [hist EXCEPT ![Caller].added = WithField(@, "k1", 1)]
    /\ steps' = [steps EXCEPT ![Caller] = @ + 1]
    /\ CallFrame /\ UNCHANGED <<lines, rec, outcome>>

\* lg.SetLogFields(ctx, {"k2": 2, "k3": 3})
CtxSetLogFields ==
    /\ Calling
    /\ entry' = SetLogFields(ctx[Caller], [k2 |-> 2, k3 |-> 3], entry)
    /\ hist' = [hist EXCEPT ![Caller].added = WithFields(@, [k2 |-> 2, k3 |-> 3])]
    /\ steps' = [steps EXCEPT ![Caller] = @ + 1]
    /\ CallFrame /\ UNCHANGED <<lines, rec, outcome>>

\* lg.SetRequestLogField(r, "k4", 4), r carrying ctx
CtxSetRequestLogField ==
    /\ Calling
    /\ entry' = SetRequestLogField(ctx[Caller], "k4", 4, entry)
    /\ hist' = [hist EXCEPT ![Caller].added = WithField(@, "k4", 4)]
    /\ steps' = [steps EXCEPT ![Caller] = @ + 1]
    /\ CallFrame /\ UNCHANGED <<lines, rec, outcome>>

\* lg.SetRequestLogFields(r, {"k5": 5}), r carrying ctx
CtxSetRequestLogFields ==
    /\ Calling
    /\ entry' = SetRequestLogFields(ctx[Caller], [k5 |-> 5], entry)
    /\ hist' = [hist EXCEPT ![Caller].added = WithFields(@, [k5 |-> 5])]
    /\ steps' = [steps EXCEPT ![Caller] = @ + 1]
    /\ CallFrame /\ UNCHANGED <<lines, rec, outcome>>

\* lg.Log(ctx).Infof("tick"); the caller's goroutine panics when Log does
CtxLog ==
    /\ Calling
    /\ LET res == Log(ctx[Caller], entry)
       IN  /\ hist' = [hist EXCEPT ![Caller].got =
                 [called |-> TRUE, ok |-> res.ok, logger |-> res.logger,
                  entryLogger |-> res.logger]]
           /\ lines' = [lines EXCEPT ![Caller] =
                 IF res.ok THEN Append(@, Line(res.logger, InfoLevel, "tick")) ELSE @]
           /\ rec' = [rec EXCEPT ![Caller] =
                 IF res.ok THEN @ ELSE StringValue(NoBackendMsg)]
           /\ outcome' = [outcome EXCEPT ![Caller] =
                 IF res.ok THEN @ ELSE "panicked"]
    /\ steps' = [steps EXCEPT ![Caller] = @ + 1]
    /\ CallFrame /\ UNCHANGED entry

NextCtx ==
    \/ CtxSetLogField
    \/ CtxSetLogFields
    \/ CtxSetRequestLogField
    \/ CtxSetRequestLogFields
    \/ CtxLog

\* the package's context functions called on any context
SpecCtx == InitCtx /\ [][NextCtx]_vars

(* ------------------------------ properties ----------------------------- *)
\* the lines of request r with message msg
LinesOf(r, msg) == SelectSeq(lines[r], LAMBDA l : l.msg = msg)

\* r's handler function has ended
Done(r) == pc[r] = "done"

\* r's downstream handler ended by a panic
Panicked(r) == rec[r] # NoPanic

\* an entry was installed on c with WithLogEntry / a logger with WithLoggerContext
HasEntry(c) == \E i \in 1 .. Len(c) : c[i].key = LogEntryCtxKey
HasLogger(c) == \E i \in 1 .. Len(c) : c[i].key = LoggerCtxKey

\* C1: every field that downstream code added through SetLogField,
\* SetLogFields or SetRequestLogField(s) before the handler returned is in
\* the field set of the request's "completed" line, with the value given.
C1_AddedFieldsOnCompletedLine ==
    \A r \in Reqs :
        Done(r) =>
            \A i \in 1 .. Len(LinesOf(r, "completed")) :
                \A k \in DOMAIN hist[r].added :
                    /\ k \in DOMAIN LinesOf(r, "completed")[i].fields
                    /\ LinesOf(r, "completed")[i].fields[k] = hist[r].added[k]

\* C2: a request has exactly one "completed" line once its handler function
\* has ended, whether downstream returned or panicked, and none before; the
\* line is the last one of the request.  With WriteRequestStartedLine there
\* is exactly one "request started" line, the first line of the request,
\* and without it there is none.
C2_ExactlyOneCompletedLine ==
    \A r \in Reqs :
        /\ Len(LinesOf(r, "completed")) = IF Done(r) THEN 1 ELSE 0
        /\ Done(r) => lines[r][Len(lines[r])].msg = "completed"
        /\ Len(LinesOf(r, "request started")) =
              IF config.WriteRequestStartedLine /\ pc[r] # "idle" THEN 1 ELSE 0
        /\ (config.WriteRequestStartedLine /\ pc[r] # "idle")
              => lines[r][1].msg = "request started"

\* two requests have ended, one after a panic and one after a normal return,
\* with the started line switched off
C2_Witness ==
    /\ ~config.WriteRequestStartedLine
    /\ \E p, q \in Reqs :
        /\ Done(p) /\ Panicked(p)
        /\ Done(q) /\ ~Panicked(q)

\* C3: when the downstream handler panicked, the panic is recorded before
\* the completion line is written: the request's single "completed" line
\* carries a non-empty stack field and a panic field holding the formatted
\* panic value.
C3_PanicFieldsOnCompletedLine ==
    \A r \in Reqs :
        (Done(r) /\ Panicked(r)) =>
            /\ Len(LinesOf(r, "completed")) = 1
            /\ LET f == LinesOf(r, "completed")[1].fields
               IN  /\ {"stack", "panic"} \subseteq DOMAIN f
                   /\ f["stack"] # ""
                   /\ rec[r] = StringValue("boom") => f["panic"] = "boom"
                   /\ rec[r] = IntValue(42) => f["panic"] = "42"
                   /\ rec[r] = StringValue(NoBackendMsg) => f["panic"] = NoBackendMsg

\* a request whose handler panicked with the integer 42 has ended
C3_Witness == \E r \in Reqs : Done(r) /\ rec[r] = IntValue(42)

\* C4: a downstream panic never leaves the middleware and never ends the
\* process: the process is alive, every handler function that has ended has
\* returned normally, and the next request can still be served.
C4_PanicNeverPropagates ==
    /\ alive
    /\ \A r \in Reqs :
        /\ outcome[r] \in {"running", "returned"}
        /\ Done(r) <=> outcome[r] = "returned"
        /\ (pc[r] = "idle" /\ \A q \in Reqs : q < r => pc[q] # "idle")
              => ENABLED RequestLoggerServe(r)

\* a request was served to its end after another one had panicked and ended
C4_Witness ==
    \E r \in Reqs : Done(r) /\ hist[r].prior > 0 /\ outcome[r] = "returned"

\* C5: when the downstream handler panicked, the middleware writes the 500
\* response only if nothing was written yet; if the handler had written a
\* status or body, the client has received nothing more than it had when
\* the handler ended.
C5_NoWriteAfterResponse ==
    \A r \in Reqs :
        (Done(r) /\ Panicked(r)) =>
            IF hist[r].exitSink = NewSink
            THEN sink[r].status = StatusInternalServerError
            ELSE sink[r] = hist[r].exitSink

\* C6: on a context derived from WithLogEntry(ctx, entry), Log / RequestLog
\* returns that entry's logger, before any logger of WithLoggerContext.
C6_LogReturnsEntryLogger ==
    \A r \in Reqs :
        (hist[r].got.called /\ HasEntry(ctx[r])) =>
            /\ hist[r].got.ok
            /\ hist[r].got.logger = hist[r].got.entryLogger

\* C7: each request passes to SetLogField the value its own atomic increment
\* returned, so no two requests attach the same count.
C7_CountIsOwnIncrement ==
    \A r \in Reqs :
        pc[r] \in {"handler", "unwinding", "done"} =>
            /\ hist[r].cnt = hist[r].own
            /\ \A q \in Reqs \ {r} :
                  pc[q] \in {"handler", "unwinding", "done"}
                      => hist[q].cnt # hist[r].cnt

\* C8: Write emits "completed" at the level recorded on the entry: info when
\* Level is unset, else exactly Level; after Panic, at the panic level.
C8_CompletedAtRecordedLevel ==
    \A r \in Reqs :
        Done(r) =>
            \A i \in 1 .. Len(LinesOf(r, "completed")) :
                LinesOf(r, "completed")[i].level =
                    IF entry[r].Level = NilLevel THEN InfoLevel ELSE entry[r].Level

\* C9: whatever Level is recorded on the entry, the completion write of the
\* deferred function neither ends the process nor panics out of the
\* middleware.
C9_CompletionWriteIsBestEffort ==
    /\ alive
    /\ \A r \in Reqs : outcome[r] \notin {"exit", "panicked"}

\* C10: Log fails exactly when neither an entry (WithLogEntry) nor a logger
\* (WithLoggerContext) is installed on the context.
C10_LogFailsOnlyWithoutBoth ==
    \A r \in Reqs :
        hist[r].got.called =>
            (hist[r].got.ok <=> (HasEntry(ctx[r]) \/ HasLogger(ctx[r])))

\* no HTTPLoggerEntry is stored on c, under any key
NoEntryOn(c) == \A i \in 1 .. Len(c) : c[i].kind # "entry"

\* a call of one of the four field-setting functions
SetCall ==
    \/ CtxSetLogField
    \/ CtxSetLogFields
    \/ CtxSetRequestLogField
    \/ CtxSetRequestLogFields

\* C11: SetLogField, SetLogFields, SetRequestLogField and SetRequestLogFields
\* called with a context on which no log entry is installed do nothing: the
\* call returns without a panic, writes no line and leaves every existing
\* entry as it was.
C11_SetWithoutEntryIsNoOp ==
    [][(SetCall /\ NoEntryOn(ctx[Caller]))
          => /\ entry' = entry
             /\ lines' = lines
             /\ outcome' = outcome
             /\ rec' = rec
             /\ alive']_vars

\* two of the functions have been called on a context that carries a logger
\* and no entry
C11_Witness ==
    /\ NoEntryOn(ctx[Caller])
    /\ HasLogger(ctx[Caller])
    /\ {"k1", "k2"} \subseteq DOMAIN hist[Caller].added
    /\ outcome[Caller] = "running"

\* a call by downstream code of r that adds fields to the request's log
FieldMutation(r) ==
    \/ CounterSetLogField(r)
    \/ DownSetRequestLogField(r)
    \/ DownSetLogFields(r)

\* C12: within one request the "request started" line, when enabled, has
\* been emitted before every field mutation made by downstream code, and
\* every such mutation happens before the "completed" line is emitted: a
\* mutation step finds the started line first in the request's output and no
\* completed line, emits none itself, and no step adds a field once the
\* completed line is out.
C12_StartedMutationsCompletedInOrder ==
    [][\A r \in Reqs :
          /\ FieldMutation(r) =>
                /\ config.WriteRequestStartedLine =>
                      /\ lines[r] # << >>
                      /\ lines[r][1].msg = "request started"
                /\ LinesOf(r, "completed") = << >>
                /\ lines'[r] = lines[r]
          /\ LinesOf(r, "completed") # << >> => hist'[r].added = hist[r].added]_vars

\* a request that wrote its started line, had a field added downstream and
\* then wrote its completed line
C12_Witness ==
    \E r \in Reqs :
        /\ Done(r)
        /\ config.WriteRequestStartedLine
        /\ "article" \in DOMAIN hist[r].added
        /\ Len(lines[r]) >= 2
        /\ lines[r][1].msg = "request started"
        /\ lines[r][Len(lines[r])].msg = "completed"

\* the lines written through r's own entry
EntryLines(r) ==
    SelectSeq(lines[r], LAMBDA l : l.msg \in {"request started", "completed"})

\* every field of line l either describes r's own request and response or is
\* one that r's own downstream code added or r's own panic left
OwnFields(r, l) ==
    LET f == l.fields
        fixed == {"req_id", "method", "ip", "ua", "uri"}
        response == {"res_code", "res_bytes", "res_ms"}
        panic == {"stack", "panic"}
    IN  /\ DOMAIN f \subseteq fixed \cup response \cup panic \cup DOMAIN hist[r].added
        /\ f.ip = Request(r).RemoteAddr
        /\ f.uri = Request(r).Path
        /\ "req_id" \in DOMAIN f => f.req_id = ReqIDString(r)
        /\ \A k \in DOMAIN f \cap DOMAIN hist[r].added : f[k] = hist[r].added[k]
        /\ DOMAIN f \cap panic # {} =>
              /\ Panicked(r)
              /\ f.stack = Stack(r)
              /\ f.panic = Sprintf(rec[r])

\* C13: under every interleaving of the requests in flight each request has
\* its own entry, installed on its own context, and every field on its
\* "request started" and "completed" lines is its own: no field added, and no
\* panic recorded, for another request appears there; the lines written
\* through the shared backend logger carry no request's fields.
C13_NoFieldsAcrossRequests ==
    \A r \in Reqs :
        /\ pc[r] # "idle" => Value(ctx[r], LogEntryCtxKey) = [key |-> LogEntryCtxKey,
                                                              kind |-> "entry", id |-> r]
        /\ \A i \in 1 .. Len(EntryLines(r)) : OwnFields(r, EntryLines(r)[i])
        /\ pc[r] # "idle" => \A k \in DOMAIN entry[r].Logger.Data \cap {"stack"} :
                                 entry[r].Logger.Data.stack = Stack(r)
        /\ \A i \in 1 .. Len(lines[r]) :
              lines[r][i].msg = "inside handler" => lines[r][i].fields = BackendLogger.Data

\* two requests handled at the same time, the first ended by a panic and the
\* second, which had fields added downstream, by a return
C13_Witness ==
    /\ Done(1) /\ Done(2)
    /\ Panicked(1) /\ ~Panicked(2)
    /\ hist[2].prior = 0
    /\ "count" \in DOMAIN hist[2].added
    /\ Len(EntryLines(1)) = 2 /\ Len(EntryLines(2)) = 2

\* the "completed" line of a request that has one
Completed(r) == LinesOf(r, "completed")[1]

C15_PanicEmitsNoLine ==
    [][\A r \in Reqs :
          (RequestLoggerDeferred(r) /\ Panicked(r)) =>
              LET old == entry[r].Logger.Data
                  new == entry'[r].Logger.Data
                  n == Len(lines[r])
              IN  /\ Len(lines'[r]) = n + 1
                  /\ SubSeq(lines'[r], 1, n) = lines[r]
                  /\ lines'[r][n + 1].msg = "completed"
                  /\ lines'[r][n + 1].level # InfoLevel
                  /\ \A i \in 1 .. n : lines[r][i].level # ErrorLevel
                  /\ entry[r].Level = NilLevel
                  /\ entry'[r].Level = PanicLevel
                  /\ {"stack", "panic"} \cap DOMAIN old = {}
                  /\ DOMAIN new = DOMAIN old \cup {"stack", "panic"}
                                     \cup {"res_code", "res_bytes", "res_ms"}
                  /\ \A k \in DOMAIN old : new[k] = old[k]
                  /\ new.stack = Stack(r)
                  /\ new.panic = Sprintf(rec[r])]_vars

\* a request ended by a panic whose output is its started line and its
\* completed line
C15_Witness ==
    \E r \in Reqs :
        /\ Done(r)
        /\ Panicked(r)
        /\ entry[r].Level = PanicLevel
        /\ Len(lines[r]) = 2
        /\ lines[r][1].msg = "request started"
        /\ lines[r][2].msg = "completed"

\* C16: when the downstream handler panics before it wrote any response,
\* the 500 response is written on the wrapped sink before the wrapper's
\* status and byte count are read: the "completed" line records status 500
\* and the length of the error body, and the client has received status 500
\* and that body.
C16_PanicLineRecordsErrorResponse ==
    \A r \in Reqs :
        (Done(r) /\ Panicked(r) /\ hist[r].exitSink = NewSink) =>
            /\ Completed(r).fields.res_code = StatusInternalServerError
            /\ Completed(r).fields.res_bytes = Len(StatusText500) + 1
            /\ Completed(r).fields.res_bytes # 0
            /\ sink[r] = [status |-> StatusInternalServerError,
                          body |-> Len(StatusText500) + 1]

\* a handler that panicked with the value 42 before it wrote anything
C16_Witness ==
    \E r \in Reqs :
        /\ Done(r)
        /\ rec[r] = IntValue(42)
        /\ hist[r].exitSink = NewSink
        /\ sink[r].status = StatusInternalServerError

\* C17: with PrintPanics between RequestLogger and a handler that panics,
\* PrintPanics recovers the panic and does not raise it again, so the panic
\* never reaches RequestLogger's recover: the entry gets no panic or stack
\* field and no Level, neither middleware writes a 500 response (the client
\* has what the handler had written), and RequestLogger writes exactly one
\* "completed" line, at info.
C17_PrintPanicsPreempts ==
    \A r \in Reqs :
        /\ (pc[r] \in {"unwinding", "done"} /\ hist[r].raised # NoPanic) =>
              /\ rec[r] = NoPanic
              /\ hist[r].stdout = << "\nPANIC: " \o Sprintf(hist[r].raised) \o "\n",
                                     Stack(r) \o "\n" >>
              /\ entry[r].Level = NilLevel
              /\ {"panic", "stack"} \cap DOMAIN entry[r].Logger.Data = {}
              /\ sink[r] = hist[r].exitSink
        /\ (Done(r) /\ hist[r].raised # NoPanic) =>
              /\ Len(LinesOf(r, "completed")) = 1
              /\ Completed(r).level = InfoLevel
              /\ {"panic", "stack"} \cap DOMAIN Completed(r).fields = {}
              /\ Completed(r).fields.res_code # StatusInternalServerError
              /\ \A i \in 1 .. Len(lines[r]) : lines[r][i].level = InfoLevel
              /\ outcome[r] = "returned"
              /\ alive

\* a request whose handler panicked under PrintPanics before it wrote any
\* response, and which the request logger has completed
C17_Witness ==
    \E r \in Reqs :
        /\ Done(r)
        /\ hist[r].raised = StringValue("boom")
        /\ hist[r].exitSink = NewSink
        /\ hist[r].stdout # << >>
        /\ LinesOf(r, "completed") # << >>

\* the fixed fields of r's request are on the field set f
FixedFieldsOf(r, f) ==
    /\ {"method", "ip", "ua", "uri"} \subseteq DOMAIN f
    /\ f.method = "GET"
    /\ f.ip = "10.0.0." \o ToString(r)
    /\ f.ua = "curl"
    /\ f.uri = "/articles/" \o ToString(r)
    /\ "req_id" \in DOMAIN f <=> config.requestID
    /\ "req_id" \in DOMAIN f => f.req_id = ReqIDString(r) /\ f.req_id # ""

\* C18: NewLogEntry gives every entry the fields method, ip, ua and uri of
\* the request, and a field req_id if and only if the request's context
\* carries a non-empty request id; these fields are on the "request
\* started" line, written when enabled, and on the "completed" line of
\* that request.
C18_FixedFieldsOnBothLines ==
    \A r \in Reqs :
        /\ pc[r] # "idle" =>
              /\ FixedFieldsOf(r, entry[r].Logger.Data)
              /\ Len(LinesOf(r, "request started")) =
                    IF config.WriteRequestStartedLine THEN 1 ELSE 0
        /\ Done(r) => Len(LinesOf(r, "completed")) = 1
        /\ \A i \in 1 .. Len(EntryLines(r)) : FixedFieldsOf(r, EntryLines(r)[i].fields)

\* a completed request with a request id, carried by both of its lines
C18_Witness ==
    \E r \in Reqs :
        /\ Done(r)
        /\ config.requestID
        /\ Len(EntryLines(r)) = 2
        /\ EntryLines(r)[1].fields.req_id = ReqIDString(r)
        /\ EntryLines(r)[2].fields.req_id = ReqIDString(r)

\* C19: under the middleware's own operations the pending Level of an entry
\* is set by Panic only: it is unset at every point of a request that no
\* panic has reached the middleware for, and the "completed" line of a
\* request whose downstream handler returned is written at info, with no
\* panic and no stack field.
C19_LevelSetOnlyByPanic ==
    \A r \in Reqs :
        /\ pc[r] # "idle" =>
              /\ entry[r].Level \in {NilLevel, PanicLevel}
              /\ entry[r].Level = PanicLevel <=> (Done(r) /\ Panicked(r))
              /\ ~Panicked(r) =>
                    {"panic", "stack"} \cap DOMAIN entry[r].Logger.Data = {}
        /\ (Done(r) /\ ~Panicked(r)) =>
              /\ Len(LinesOf(r, "completed")) = 1
              /\ Completed(r).level = InfoLevel
              /\ {"panic", "stack"} \cap DOMAIN Completed(r).fields = {}
              /\ outcome[r] = "returned"

\* a request whose handler wrote a response and returned, completed while
\* another request has been completed after a panic
C19_Witness ==
    \E r, q \in Reqs :
        /\ Done(r) /\ ~Panicked(r)
        /\ Completed(r).fields.res_code = 404
        /\ Done(q) /\ Panicked(q)
        /\ entry[q].Level = PanicLevel
        /\ entry[r].Level = NilLevel

=============================================================================
